---- MODULE Spec2Model ----
(***************************************************************************)
(* A model of the deferred raw-value protocol (src/src/raw.rs) and of the  *)
(* diagnostics layer (src/json/src/error.rs).                              *)
(*                                                                         *)
(* Texts are sequences of one-character strings.  Spec is the protocol:    *)
(* one run of the sentinel handshake over a map access, followed by the    *)
(* operations on the values it produced (to_owned, clone, deref, borrow,   *)
(* Display, Serialize).  SpecErr is the diagnostics layer: construction of *)
(* Error values and their Display.                                         *)
(***************************************************************************)
EXTENDS Integers, Sequences, FiniteSets, TLC

VARIABLES
    pc,        \* position of the handshake: "start", "next_key", "next_value", "done"
    target,    \* the Deserialize impl that runs: "RawSlice" (&RawSlice) or "RawValue"
    given,     \* the text the driver captured, as handed to the map access (an Option)
    access,    \* the map access the driver gave to visit_map
    dcalls,    \* the calls the handshake made on the map access, in order
    res,       \* the result of deserialize
    probe,     \* the result of one more next_key_seed after the handshake
    vals,      \* the RawSlice / RawValue values produced so far
    obs,       \* the last operation applied to a value, with its source and output
    spc,       \* position of Serialize::serialize
    sval,      \* the value being serialized
    scalls,    \* the calls issued to the serializing driver, in order
    sfail,     \* the index of the driver call that returned an error (0: none)
    sres,      \* what serialize returned
    err,       \* diagnostics layer: the Error value last constructed
    origin,    \* diagnostics layer: the constructor or conversion that made err
    shown,     \* diagnostics layer: the Display output of err
    prevCode   \* diagnostics layer: the ErrorCode of the error displayed before

vars == <<pc, target, given, access, dcalls, res, probe, vals, obs,
          spc, sval, scalls, sfail, sres, err, origin, shown, prevCode>>

rawVars == <<pc, target, given, access, dcalls, res, probe, vals, obs,
             spc, sval, scalls, sfail, sres>>

errVars == <<err, origin, shown, prevCode>>

(***************************************************************************)
(* Bounds and input sets.                                                  *)
(***************************************************************************)
MaxLen == 2

Chars == {"{", " ", "\\"}

Texts == UNION {[1..n -> Chars] : n \in 0..MaxLen}

None == [some |-> FALSE]

Some(x) == [some |-> TRUE, val |-> x]

Option(S) == {None} \cup {Some(x) : x \in S}

TOKEN == "$serde_json::private::RawValue"

(***************************************************************************)
(* The two text-holding types and their conversions.                       *)
(***************************************************************************)
RawSlice_from_inner(borrowed) == [borrowed |-> borrowed]

RawValue_from_inner(owned) == [owned |-> RawSlice_from_inner(owned)]

IsRawSlice(v) == DOMAIN v = {"borrowed"}

IsRawValue(v) == DOMAIN v = {"owned"}

\* a copy that stops one character short
str_to_owned_Short(s) == [i \in 1..(Len(s) - 1) |-> s[i]]

\* str::to_owned / String::into_boxed_str: a fresh copy, character by character
str_to_owned(s) == [i \in 1..Len(s) |-> s[i]]

to_owned(s) == RawValue_from_inner(str_to_owned(s.borrowed))

deref(v) == v.owned

borrow(v) == v.owned

clone(v) == to_owned(deref(v))

as_ref(s) == s.borrowed

\* debug_tuple("RawSlice").field(&format_args!("{}", &self.borrowed)).finish()
Debug_RawSlice(s) ==
    <<"R", "a", "w", "S", "l", "i", "c", "e", "(">> \o s.borrowed \o <<")">>

\* debug_tuple("RawValue").field(&format_args!("{}", &self.owned.borrowed)).finish()
Debug_RawValue(v) ==
    <<"R", "a", "w", "V", "a", "l", "u", "e", "(">> \o v.owned.borrowed \o <<")">>

\* Display written through the Debug impl
Display_RawSlice_AsDebug(s) == Debug_RawSlice(s)

Display_RawSlice(s) == s.borrowed

\* Display of the owned form written through its Debug impl
Display_RawValue_AsDebug(v) == Debug_RawValue(v)

Display_RawValue(v) == Display_RawSlice(deref(v))

\* the text a value holds, whichever its form
TextOf(v) == IF IsRawValue(v) THEN as_ref(deref(v)) ELSE as_ref(v)

(***************************************************************************)
(* Results, as the framework's Result<T, E>; a panic is a third outcome.   *)
(***************************************************************************)
Ok(x) == [tag |-> "Ok", val |-> x]

Err(e) == [tag |-> "Err", err |-> e]

Panic == [tag |-> "Panic"]

NoResult == [tag |-> "none"]

invalid_type(unexp) == [kind |-> "invalid_type", unexp |-> unexp]

custom(msg) == [kind |-> "custom", msg |-> msg]

(***************************************************************************)
(* The key side of the handshake.                                          *)
(***************************************************************************)
\* a field visitor that accepts every identifier
FieldVisitor_visit_str_Any(s) == Ok("unit")

FieldVisitor_visit_str(s) ==
    IF s = TOKEN THEN Ok("unit") ELSE Err(custom("unexpected raw value"))

\* deserialize_identifier(FieldVisitor)?; Ok(RawKey)
RawKey_deserialize(ident) ==
    LET r == FieldVisitor_visit_str(ident)
    IN  IF r.tag = "Ok" THEN Ok("RawKey") ELSE r

\* deserialize_any: visitor.visit_borrowed_str(TOKEN)
RawKeyDeserializer == TOKEN

(***************************************************************************)
(* The value side: the two seeds.  how is the Visitor method the driver's  *)
(* string deserializer calls: "borrowed_str", "str" or "string".  A method *)
(* the seed does not define falls to the framework's default, which ends   *)
(* in invalid_type(Unexpected::Str).                                       *)
(***************************************************************************)
TrimStart(s) == IF s # <<>> /\ Head(s) = " " THEN Tail(s) ELSE s

\* a seed that trims leading whitespace off the captured text
RawSliceFromString_Trimmed(how, s) ==
    IF how = "borrowed_str"
    THEN Ok(RawSlice_from_inner(TrimStart(s)))
    ELSE Err(invalid_type("Str"))

RawSliceFromString(how, s) ==
    IF how = "borrowed_str"
    THEN Ok(RawSlice_from_inner(s))
    ELSE Err(invalid_type("Str"))

RawValueFromString_visit_string(s) == Ok(RawValue_from_inner(s))

RawValueFromString(how, s) ==
    IF how = "string"
    THEN RawValueFromString_visit_string(s)
    ELSE RawValueFromString_visit_string(str_to_owned(s))

Seed(tgt, how, s) ==
    IF tgt = "RawSlice" THEN RawSliceFromString(how, s) ELSE RawValueFromString(how, s)

(***************************************************************************)
(* The map accesses.  OwnedRawDeserializer and BorrowedRawDeserializer     *)
(* hold raw_value; a driver unaware of the sentinel holds the entries of   *)
(* an ordinary record and reads each key as an identifier.                 *)
(***************************************************************************)
OwnedRawDeserializer(raw_value) == [kind |-> "Owned", raw_value |-> raw_value]

BorrowedRawDeserializer(raw_value) == [kind |-> "Borrowed", raw_value |-> raw_value]

\* the entries of the record, and how many of them have been read
GenericMapAccess(entries) == [kind |-> "Generic", entries |-> entries, read |-> 0]

AtEnd(a) == a.read >= Len(a.entries)

Current(a) == a.entries[a.read + 1]

IsRaw(a) == a.kind \in {"Owned", "Borrowed"}

GenericKeys == {TOKEN, "payload", "$serde_json::private::RawSlice"}

Entries == {<<>>} \cup {<<[key |-> k, value |-> t]>> : k \in GenericKeys, t \in Texts}

Accesses ==
    {OwnedRawDeserializer(o) : o \in Option(Texts)}
    \cup {BorrowedRawDeserializer(o) : o \in Option(Texts)}
    \cup {GenericMapAccess(e) : e \in Entries}

\* next_key_seed with the seed of next_key::<RawKey>(); the access is left as it is
next_key_seed(a) ==
    IF IsRaw(a)
    THEN IF ~a.raw_value.some
         THEN Ok(None)
         ELSE LET k == RawKey_deserialize(RawKeyDeserializer)
              IN  IF k.tag = "Ok" THEN Ok(Some(k.val)) ELSE k
    ELSE IF AtEnd(a)
         THEN Ok(None)
         ELSE LET k == RawKey_deserialize(Current(a).key)
              IN  IF k.tag = "Ok" THEN Ok(Some(k.val)) ELSE k

\* next_value_seed reading raw_value without taking it
next_value_seed_NoTake(a, tgt) ==
    CASE a.kind = "Owned" ->
           [access |-> a,
            result |-> IF a.raw_value.some
                       THEN Seed(tgt, "string", a.raw_value.val)
                       ELSE Panic]
      [] a.kind = "Borrowed" ->
           [access |-> a,
            result |-> IF a.raw_value.some
                       THEN Seed(tgt, "borrowed_str", a.raw_value.val)
                       ELSE Panic]
      [] OTHER ->
           IF AtEnd(a)
           THEN [access |-> a, result |-> Panic]
           ELSE [access |-> [a EXCEPT !.read = a.read + 1],
                 result |-> Seed(tgt, "str", Current(a).value)]

\* next_value_seed: the result, and the access as the call leaves it
next_value_seed(a, tgt) ==
    CASE a.kind = "Owned" ->
           [access |-> OwnedRawDeserializer(None),
            result |-> IF a.raw_value.some
                       THEN Seed(tgt, "string", a.raw_value.val)
                       ELSE Panic]
      [] a.kind = "Borrowed" ->
           [access |-> BorrowedRawDeserializer(None),
            result |-> IF a.raw_value.some
                       THEN Seed(tgt, "borrowed_str", a.raw_value.val)
                       ELSE Panic]
      [] OTHER ->
           IF AtEnd(a)
           THEN [access |-> a, result |-> Panic]
           ELSE [access |-> [a EXCEPT !.read = a.read + 1],
                 result |-> Seed(tgt, "str", Current(a).value)]

GivenOf(a) ==
    IF IsRaw(a) THEN a.raw_value
    ELSE IF AtEnd(a) THEN None ELSE Some(Current(a).value)

(***************************************************************************)
(* The handshake: Deserialize::deserialize asks the driver for             *)
(* deserialize_newtype_struct(TOKEN, visitor); the driver answers by       *)
(* calling visit_map on a map access.                                      *)
(***************************************************************************)
NoObs == [op |-> "none"]

Deserialize(tgt, a) ==
    /\ pc = "start"
    /\ pc' = "next_key"
    /\ target' = tgt
    /\ access' = a
    /\ given' = GivenOf(a)
    /\ UNCHANGED <<dcalls, res, probe, vals, obs, spc, sval, scalls, sfail, sres>>
    /\ UNCHANGED errVars

\* visit_map without the is_none check
VisitMapNextKey_NoNoneCheck ==
    /\ pc = "next_key"
    /\ LET k == next_key_seed(access)
       IN  /\ dcalls' = Append(dcalls, "next_key_seed")
           /\ IF k.tag # "Ok"
              THEN pc' = "done" /\ res' = k
              ELSE pc' = "next_value" /\ res' = res
    /\ UNCHANGED <<target, given, access, probe, vals, obs, spc, sval, scalls, sfail, sres>>
    /\ UNCHANGED errVars

\* let value = visitor.next_key::<RawKey>()?; if value.is_none() { return Err(..) }
VisitMapNextKey ==
    /\ pc = "next_key"
    /\ LET k == next_key_seed(access)
       IN  /\ dcalls' = Append(dcalls, "next_key_seed")
           /\ IF k.tag # "Ok"
              THEN pc' = "done" /\ res' = k
              ELSE IF ~k.val.some
                   THEN pc' = "done" /\ res' = Err(invalid_type("Map"))
                   ELSE pc' = "next_value" /\ res' = res
    /\ UNCHANGED <<target, given, access, probe, vals, obs, spc, sval, scalls, sfail, sres>>
    /\ UNCHANGED errVars

\* visitor.next_value_seed(RawSliceFromString / RawValueFromString)
VisitMapNextValue ==
    /\ pc = "next_value"
    /\ LET r == next_value_seed(access, target)
       IN  /\ dcalls' = Append(dcalls, "next_value_seed")
           /\ access' = r.access
           /\ res' = r.result
           /\ vals' = IF r.result.tag = "Ok" THEN {r.result.val} ELSE {}
    /\ pc' = "done"
    /\ UNCHANGED <<target, given, probe, obs, spc, sval, scalls, sfail, sres>>
    /\ UNCHANGED errVars

\* the driver asks the map access for one more key once visit_map has returned
ProbeNextKey ==
    /\ pc = "done"
    /\ probe = NoResult
    /\ probe' = next_key_seed(access)
    /\ UNCHANGED <<pc, target, given, access, dcalls, res, vals, obs,
                   spc, sval, scalls, sfail, sres>>
    /\ UNCHANGED errVars

(***************************************************************************)
(* Operations on the values the handshake produced.  Each takes &self: the *)
(* source stays among the values.                                          *)
(***************************************************************************)
Observe(op, v, out) == [op |-> op, src |-> v, out |-> out]

valueFrame == UNCHANGED <<pc, target, given, access, dcalls, res, probe,
                          spc, sval, scalls, sfail, sres>>

ToOwned(v) ==
    /\ pc = "done" /\ v \in vals /\ IsRawSlice(v)
    /\ vals' = vals \cup {to_owned(v)}
    /\ obs' = Observe("to_owned", v, to_owned(v))
    /\ valueFrame /\ UNCHANGED errVars

Clone(v) ==
    /\ pc = "done" /\ v \in vals /\ IsRawValue(v)
    /\ vals' = vals \cup {clone(v)}
    /\ obs' = Observe("clone", v, clone(v))
    /\ valueFrame /\ UNCHANGED errVars

Deref(v) ==
    /\ pc = "done" /\ v \in vals /\ IsRawValue(v)
    /\ vals' = vals \cup {deref(v)}
    /\ obs' = Observe("deref", v, deref(v))
    /\ valueFrame /\ UNCHANGED errVars

Borrow(v) ==
    /\ pc = "done" /\ v \in vals /\ IsRawValue(v)
    /\ vals' = vals \cup {borrow(v)}
    /\ obs' = Observe("borrow", v, borrow(v))
    /\ valueFrame /\ UNCHANGED errVars

AsRef(v) ==
    /\ pc = "done" /\ v \in vals /\ IsRawSlice(v)
    /\ obs' = Observe("as_ref", v, as_ref(v))
    /\ UNCHANGED vals
    /\ valueFrame /\ UNCHANGED errVars

DebugOf(v) == IF IsRawValue(v) THEN Debug_RawValue(v) ELSE Debug_RawSlice(v)

DebugFmt(v) ==
    /\ pc = "done" /\ v \in vals
    /\ obs' = Observe("debug", v, DebugOf(v))
    /\ UNCHANGED vals
    /\ valueFrame /\ UNCHANGED errVars

DisplayOf(v) == IF IsRawValue(v) THEN Display_RawValue(v) ELSE Display_RawSlice(v)

Display(v) ==
    /\ pc = "done" /\ v \in vals
    /\ obs' = Observe("display", v, DisplayOf(v))
    /\ UNCHANGED vals
    /\ valueFrame /\ UNCHANGED errVars

(***************************************************************************)
(* The write path.  Serialize for RawValue dereferences and serializes the *)
(* RawSlice.  Each call on the serializing driver may return an error,     *)
(* which `?` returns at once.                                              *)
(***************************************************************************)
SliceOf(v) == IF IsRawValue(v) THEN deref(v) ELSE v

serialize_struct(name, len) == [call |-> "serialize_struct", name |-> name, len |-> len]

serialize_field(key, value) == [call |-> "serialize_field", key |-> key, value |-> value]

end == [call |-> "end"]

serFrame == UNCHANGED <<pc, target, given, access, dcalls, res, probe, vals, obs>>

\* let mut s = serializer.serialize_struct(TOKEN, 1)?;
SerializeStruct(v, ok) ==
    /\ pc = "done" /\ v \in vals
    /\ spc = "idle"
    /\ sval' = v
    /\ scalls' = <<serialize_struct(TOKEN, 1)>>
    /\ IF ok
       THEN spc' = "struct" /\ UNCHANGED <<sfail, sres>>
       ELSE spc' = "returned" /\ sfail' = 1 /\ sres' = "Err"
    /\ serFrame /\ UNCHANGED errVars

\* the field write issued although serialize_struct returned an error
SerializeField_AfterError(ok) ==
    /\ spc = "struct" \/ (spc = "returned" /\ sfail = 1)
    /\ scalls' = Append(scalls, serialize_field(TOKEN, SliceOf(sval).borrowed))
    /\ IF ok
       THEN spc' = "field" /\ UNCHANGED <<sfail, sres>>
       ELSE spc' = "returned" /\ sfail' = 2 /\ sres' = "Err"
    /\ UNCHANGED sval
    /\ serFrame /\ UNCHANGED errVars

\* s.serialize_field(TOKEN, &self.borrowed)?;
SerializeField(ok) ==
    /\ spc = "struct"
    /\ scalls' = Append(scalls, serialize_field(TOKEN, SliceOf(sval).borrowed))
    /\ IF ok
       THEN spc' = "field" /\ UNCHANGED <<sfail, sres>>
       ELSE spc' = "returned" /\ sfail' = 2 /\ sres' = "Err"
    /\ UNCHANGED sval
    /\ serFrame /\ UNCHANGED errVars

\* s.end()
SerializeEnd(ok) ==
    /\ spc = "field"
    /\ scalls' = Append(scalls, end)
    /\ spc' = "returned"
    /\ IF ok
       THEN sres' = "Ok" /\ UNCHANGED sfail
       ELSE sres' = "Err" /\ sfail' = 3
    /\ UNCHANGED sval
    /\ serFrame /\ UNCHANGED errVars

(***************************************************************************)
(* The protocol's specification.                                           *)
(***************************************************************************)
NoError == [variant |-> "none"]

InitErr ==
    /\ err = NoError
    /\ origin = "none"
    /\ shown = None
    /\ prevCode = None

InitRaw ==
    /\ pc = "start"
    /\ target = "none"
    /\ given = None
    /\ access = GenericMapAccess(<<>>)
    /\ dcalls = <<>>
    /\ res = NoResult
    /\ probe = NoResult
    /\ vals = {}
    /\ obs = NoObs
    /\ spc = "idle"
    /\ sval = NoObs
    /\ scalls = <<>>
    /\ sfail = 0
    /\ sres = "none"

Init == InitRaw /\ InitErr

Next ==
    \/ \E tgt \in {"RawSlice", "RawValue"}, a \in Accesses : Deserialize(tgt, a)
    \/ VisitMapNextKey
    \/ VisitMapNextValue
    \/ ProbeNextKey
    \/ \E v \in vals : ToOwned(v)
    \/ \E v \in vals : Clone(v)
    \/ \E v \in vals : Deref(v)
    \/ \E v \in vals : Borrow(v)
    \/ \E v \in vals : AsRef(v)
    \/ \E v \in vals : Display(v)
    \/ \E v \in vals : DebugFmt(v)
    \/ \E v \in vals, ok \in BOOLEAN : SerializeStruct(v, ok)
    \/ \E ok \in BOOLEAN : SerializeField(ok)
    \/ \E ok \in BOOLEAN : SerializeEnd(ok)

Spec == Init /\ [][Next]_vars

(***************************************************************************)
(* Properties of the protocol, checked under Spec.                         *)
(***************************************************************************)
FirstKeyIsOther ==
    /\ access.kind = "Generic"
    /\ access.entries # <<>>
    /\ Head(access.entries).key # "$serde_json::private::RawValue"

\* C1: read-path fidelity.  When the driver hands visit_map a map access holding
\* raw_value = Some(t) (BorrowedRawDeserializer for &RawSlice, OwnedRawDeserializer
\* for RawValue), deserialization succeeds with a value of the target's form whose
\* as_ref() text is t: the same length and the same character at every position.
C1_ReadPathFidelity ==
    ( /\ pc = "done"
      /\ given.some
      /\ \/ target = "RawSlice" /\ access.kind = "Borrowed"
         \/ target = "RawValue" /\ access.kind = "Owned" )
    => /\ res.tag = "Ok"
       /\ IF target = "RawSlice" THEN IsRawSlice(res.val) ELSE IsRawValue(res.val)
       /\ Len(as_ref(SliceOf(res.val))) = Len(given.val)
       /\ \A i \in 1..Len(given.val) : as_ref(SliceOf(res.val))[i] = given.val[i]

C1_Witness ==
    /\ pc = "done"
    /\ target = "RawSlice" /\ access.kind = "Borrowed"
    /\ given = Some(<<" ", "\\">>)
    /\ res.tag = "Ok"

\* C2: round-trip fidelity.  Every value that stems from a handshake over the
\* captured text t hands the serializing driver t as the field's value, and
\* Display of it writes t: nothing between capture and emission changes the text.
C2_RoundTrip ==
    (res.tag = "Ok" /\ given.some)
    => /\ (Len(scalls) >= 2 => scalls[2].value = given.val)
       /\ (obs.op = "display" => obs.out = given.val)

C2_Witness ==
    /\ given = Some(<<"\\", " ">>)
    /\ Len(scalls) = 3
    /\ IsRawValue(sval)
    /\ obs.op = "display"
    /\ IsRawSlice(obs.src)

\* C3: empty-record rejection.  When the map access yields no first key, both
\* &RawSlice and RawValue fail with invalid_type(Unexpected::Map); the handshake
\* called next_key_seed once, never next_value_seed, and produced no value.
C3_EmptyRecordRejected ==
    (pc = "done" /\ ~given.some)
    => /\ res = Err(invalid_type("Map"))
       /\ dcalls = <<"next_key_seed">>
       /\ vals = {}

C3_Witness ==
    /\ pc = "done"
    /\ target = "RawValue"
    /\ access = OwnedRawDeserializer(None)
    /\ res.tag = "Err"

\* C4: write-path call sequence.  The calls issued to the serializing driver are
\* a prefix of: begin struct TOKEN with 1 field, field TOKEN = the raw text, end.
\* A call that returned an error is the last call made and serialize returns the
\* error; without an error all three calls are made, in this order.
C4_Expected(v) ==
    << [call |-> "serialize_struct", name |-> "$serde_json::private::RawValue", len |-> 1],
       [call |-> "serialize_field", key |-> "$serde_json::private::RawValue",
        value |-> TextOf(v)],
       [call |-> "end"] >>

C4_WriteCallSequence ==
    spc # "idle"
    => /\ Len(scalls) \in 1..3
       /\ scalls = SubSeq(C4_Expected(sval), 1, Len(scalls))
       /\ (spc = "struct" => Len(scalls) = 1 /\ sfail = 0)
       /\ (spc = "field" => Len(scalls) = 2 /\ sfail = 0)
       /\ (sfail # 0 => spc = "returned" /\ sres = "Err" /\ Len(scalls) = sfail)
       /\ (spc = "returned" /\ sfail = 0 => sres = "Ok" /\ Len(scalls) = 3)

C4_Witness ==
    /\ spc = "returned"
    /\ sfail = 2
    /\ IsRawValue(sval)
    /\ Len(TextOf(sval)) > 0

\* C5 as claimed: every value the protocol produces holds non-empty text,
\* whatever raw_value the map access held.
C5_AlwaysNonEmpty == \A v \in vals : Len(TextOf(v)) > 0

\* C5 as amended: a value is produced only from raw_value = Some(t), and when t
\* is non-empty every value produced (by the handshake, to_owned, clone, deref,
\* borrow) holds non-empty text.
C5_NonEmptyFromNonEmpty ==
    \A v \in vals : given.some /\ (Len(given.val) > 0 => Len(TextOf(v)) > 0)

C5_Witness ==
    /\ Cardinality(vals) = 2
    /\ obs.op = "clone"
    /\ Len(given.val) > 0

\* C6: borrowed/owned equivalence.  to_owned gives a RawValue, deref and borrow
\* give a RawSlice, clone gives a RawValue, each with the text of its source; the
\* source is still among the values; two values with the same text display the same.
C6_BorrowedOwnedEquivalence ==
    /\ obs.op = "to_owned" =>
         IsRawSlice(obs.src) /\ IsRawValue(obs.out) /\ TextOf(obs.out) = TextOf(obs.src)
    /\ obs.op \in {"deref", "borrow"} =>
         IsRawValue(obs.src) /\ IsRawSlice(obs.out) /\ TextOf(obs.out) = TextOf(obs.src)
    /\ obs.op = "clone" =>
         IsRawValue(obs.src) /\ IsRawValue(obs.out) /\ TextOf(obs.out) = TextOf(obs.src)
    /\ obs.op # "none" => obs.src \in vals
    /\ \A a, b \in vals : TextOf(a) = TextOf(b) => DisplayOf(a) = DisplayOf(b)

C6_Witness ==
    /\ obs.op = "to_owned"
    /\ Len(TextOf(obs.src)) > 0
    /\ \E a, b \in vals : IsRawSlice(a) /\ IsRawValue(b)

\* C9 as claimed: a first key other than TOKEN makes both targets fail with a
\* type-mismatch (invalid_type) error, without next_value_seed and without a value.
C9_OtherKeyTypeMismatch ==
    (pc = "done" /\ FirstKeyIsOther)
    => /\ res.tag = "Err" /\ res.err.kind = "invalid_type"
       /\ dcalls = <<"next_key_seed">>
       /\ vals = {}

\* C9 as amended: a first key other than TOKEN makes both targets fail with the
\* custom error "unexpected raw value" (not a panic, not invalid_type); the
\* handshake called next_key_seed once, never next_value_seed, and produced no value.
C9_OtherKeyCustomError ==
    (pc = "done" /\ FirstKeyIsOther)
    => /\ res = Err(custom("unexpected raw value"))
       /\ dcalls = <<"next_key_seed">>
       /\ vals = {}

C9_Witness ==
    /\ pc = "done"
    /\ target = "RawSlice"
    /\ FirstKeyIsOther
    /\ Head(access.entries).key = "payload"
    /\ res.tag = "Err"

\* C10: one-key map state machine.  For OwnedRawDeserializer and
\* BorrowedRawDeserializer: next_key_seed yields a key iff raw_value is Some and
\* leaves raw_value as it was; next_value_seed leaves raw_value None, so a later
\* next_key_seed returns None.  The handshake calls next_value_seed at most once
\* and only after next_key_seed gave a key, and no run panics.
C10_OneKeyMap ==
    /\ dcalls \in {<<>>, <<"next_key_seed">>, <<"next_key_seed", "next_value_seed">>}
    /\ res.tag # "Panic"
    /\ (IsRaw(access) /\ pc # "start") =>
         /\ (pc = "next_key" => access.raw_value = given)
         /\ (pc = "next_value" => given.some /\ access.raw_value = given)
         /\ (pc = "done" /\ Len(dcalls) = 1 => ~given.some /\ access.raw_value = given)
         /\ (Len(dcalls) = 2 => given.some /\ ~access.raw_value.some)
         /\ (probe # NoResult =>
               probe = IF access.raw_value.some THEN Ok(Some("RawKey")) ELSE Ok(None))
         /\ (probe # NoResult /\ Len(dcalls) = 2 => probe = Ok(None))

C10_Witness ==
    /\ IsRaw(access)
    /\ given.some
    /\ dcalls = <<"next_key_seed", "next_value_seed">>
    /\ probe = Ok(None)

(***************************************************************************)
(* The diagnostics layer.  An ErrorCode is [code |-> name], with a field   *)
(* for the two variants that carry one; texts are sequences of characters. *)
(***************************************************************************)
MaxPos == 2

\* the positions the parser reports: small ones, and some of two and three digits
Positions == (1..MaxPos) \cup {10 + MaxPos, 100 * MaxPos}

\* the character ` (a TLA+ string cannot hold it)
Grave == "grave"

UnitCodes ==
    {"EOFWhileParsingList", "EOFWhileParsingObject", "EOFWhileParsingString",
    "EOFWhileParsingValue", "ExpectedColon", "ExpectedConversion",
    "ExpectedEnumEnd", "ExpectedEnumEndToken", "ExpectedEnumMapStart",
    "ExpectedEnumToken", "ExpectedEnumVariantString",
    "ExpectedListCommaOrEnd", "ExpectedName", "ExpectedObjectCommaOrEnd",
    "ExpectedSomeIdent", "ExpectedSomeValue", "InvalidEscape",
    "InvalidNumber", "InvalidUnicodeCodePoint", "KeyMustBeAString",
    "LoneLeadingSurrogateInHexEscape", "NotFourDigit", "NotUtf8",
    "TrailingCharacters", "UnexpectedEndOfHexEscape", "UnknownVariant",
    "UnrecognizedHex"}

FieldNames == {<<"a">>, <<"b">>, <<"a", "\"">>}

ErrorCode(code) == [code |-> code]

UnknownField(field) == [code |-> "UnknownField", field |-> field]

MissingField(field) == [code |-> "MissingField", field |-> field]

ErrorCodes ==
    {ErrorCode(c) : c \in UnitCodes}
    \cup {UnknownField(f) : f \in FieldNames}
    \cup {MissingField(f) : f \in FieldNames}

SyntaxError(code, line, col) ==
    [variant |-> "SyntaxError", code |-> code, line |-> line, col |-> col]

MissingFieldError(field) == [variant |-> "MissingFieldError", field |-> field]

\* the string literal of each unit variant's arm
ErrorCodeLiteral(code) ==
    CASE code = "EOFWhileParsingList" ->
             <<"E", "O", "F", " ", "W", "h", "i", "l", "e", " ", "p", "a",
             "r", "s", "i", "n", "g", " ", "l", "i", "s", "t">>
      [] code = "EOFWhileParsingObject" ->
             <<"E", "O", "F", " ", "W", "h", "i", "l", "e", " ", "p", "a",
             "r", "s", "i", "n", "g", " ", "o", "b", "j", "e", "c", "t">>
      [] code = "EOFWhileParsingString" ->
             <<"E", "O", "F", " ", "W", "h", "i", "l", "e", " ", "p", "a",
             "r", "s", "i", "n", "g", " ", "s", "t", "r", "i", "n", "g">>
      [] code = "EOFWhileParsingValue" ->
             <<"E", "O", "F", " ", "W", "h", "i", "l", "e", " ", "p", "a",
             "r", "s", "i", "n", "g", " ", "v", "a", "l", "u", "e">>
      [] code = "ExpectedColon" ->
             <<"e", "x", "p", "e", "c", "t", "e", "d", " ", Grave, ":", Grave>>
      [] code = "ExpectedConversion" ->
             <<"e", "x", "p", "e", "c", "t", "e", "d", " ", "c", "o", "n",
             "v", "e", "r", "s", "i", "o", "n">>
      [] code = "ExpectedEnumEnd" ->
             <<"e", "x", "p", "e", "c", "t", "e", "d", " ", "e", "n", "u",
             "m", " ", "e", "n", "d">>
      [] code = "ExpectedEnumEndToken" ->
             <<"e", "x", "p", "e", "c", "t", "e", "d", " ", "e", "n", "u",
             "m", " ", "m", "a", "p", " ", "e", "n", "d">>
      [] code = "ExpectedEnumMapStart" ->
             <<"e", "x", "p", "e", "c", "t", "e", "d", " ", "e", "n", "u",
             "m", " ", "m", "a", "p", " ", "s", "t", "a", "r", "t">>
      [] code = "ExpectedEnumToken" ->
             <<"e", "x", "p", "e", "c", "t", "e", "d", " ", "e", "n", "u",
             "m", " ", "t", "o", "k", "e", "n">>
      [] code = "ExpectedEnumVariantString" ->
             <<"e", "x", "p", "e", "c", "t", "e", "d", " ", "v", "a", "r",
             "i", "a", "n", "t">>
      [] code = "ExpectedListCommaOrEnd" ->
             <<"e", "x", "p", "e", "c", "t", "e", "d", " ", Grave, ",", Grave,
             " ", "o", "r", " ", Grave, "]", Grave>>
      [] code = "ExpectedName" ->
             <<"e", "x", "p", "e", "c", "t", "e", "d", " ", "n", "a", "m",
             "e">>
      [] code = "ExpectedObjectCommaOrEnd" ->
             <<"e", "x", "p", "e", "c", "t", "e", "d", " ", Grave, ",", Grave,
             " ", "o", "r", " ", Grave, "}", Grave>>
      [] code = "ExpectedSomeIdent" ->
             <<"e", "x", "p", "e", "c", "t", "e", "d", " ", "i", "d", "e",
             "n", "t">>
      [] code = "ExpectedSomeValue" ->
             <<"e", "x", "p", "e", "c", "t", "e", "d", " ", "v", "a", "l",
             "u", "e">>
      [] code = "InvalidEscape" ->
             <<"i", "n", "v", "a", "l", "i", "d", " ", "e", "s", "c", "a",
             "p", "e">>
      [] code = "InvalidNumber" ->
             <<"i", "n", "v", "a", "l", "i", "d", " ", "n", "u", "m", "b",
             "e", "r">>
      [] code = "InvalidUnicodeCodePoint" ->
             <<"i", "n", "v", "a", "l", "i", "d", " ", "u", "n", "i", "c",
             "o", "d", "e", " ", "c", "o", "d", "e", " ", "p", "o", "i", "n",
             "t">>
      [] code = "KeyMustBeAString" ->
             <<"k", "e", "y", " ", "m", "u", "s", "t", " ", "b", "e", " ",
             "a", " ", "s", "t", "r", "i", "n", "g">>
      [] code = "LoneLeadingSurrogateInHexEscape" ->
             <<"l", "o", "n", "e", " ", "l", "e", "a", "d", "i", "n", "g",
             " ", "s", "u", "r", "r", "o", "g", "a", "t", "e", " ", "i", "n",
             " ", "h", "e", "x", " ", "e", "s", "c", "a", "p", "e">>
      [] code = "NotFourDigit" ->
             <<"i", "n", "v", "a", "l", "i", "d", " ", "\\", "u", " ", "e",
             "s", "c", "a", "p", "e", " ", "(", "n", "o", "t", " ", "f", "o",
             "u", "r", " ", "d", "i", "g", "i", "t", "s", ")">>
      [] code = "NotUtf8" ->
             <<"c", "o", "n", "t", "e", "n", "t", "s", " ", "n", "o", "t",
             " ", "u", "t", "f", "-", "8">>
      [] code = "TrailingCharacters" ->
             <<"t", "r", "a", "i", "l", "i", "n", "g", " ", "c", "h", "a",
             "r", "a", "c", "t", "e", "r", "s">>
      [] code = "UnexpectedEndOfHexEscape" ->
             <<"u", "n", "e", "x", "p", "e", "c", "t", "e", "d", " ", "e",
             "n", "d", " ", "o", "f", " ", "h", "e", "x", " ", "e", "s", "c",
             "a", "p", "e">>
      [] code = "UnknownVariant" ->
             <<"u", "n", "k", "n", "o", "w", "n", " ", "v", "a", "r", "i",
             "a", "n", "t">>
      [] code = "UnrecognizedHex" ->
             <<"i", "n", "v", "a", "l", "i", "d", " ", "\\", "u", " ", "e",
             "s", "c", "a", "p", "e", " ", "(", "u", "n", "r", "e", "c", "o",
             "g", "n", "i", "z", "e", "d", " ", "h", "e", "x", ")">>

RECURSIVE escape_debug(_)
\* <str as Debug>: a double quote and a backslash are escaped with a backslash
escape_debug(s) ==
    IF s = <<>> THEN <<>>
    ELSE (IF Head(s) \in {"\"", "\\"} THEN <<"\\", Head(s)>> ELSE <<Head(s)>>)
         \o escape_debug(Tail(s))

\* "...".fmt(f) with std::fmt::Debug in scope: the literal, quoted and escaped
Debug_str(s) == <<"\"">> \o escape_debug(s) \o <<"\"">>

UnknownFieldPrefix ==
    <<"u", "n", "k", "n", "o", "w", "n", " ", "f", "i", "e", "l", "d", " ", "\"">>

MissingFieldPrefix ==
    <<"m", "i", "s", "s", "i", "n", "g", " ", "f", "i", "e", "l", "d", " ", "\"">>

\* both payload arms written with the unknown-field text
Debug_ErrorCode_CopyPaste(c) ==
    IF c.code \in {"UnknownField", "MissingField"}
    THEN UnknownFieldPrefix \o c.field \o <<"\"">>
    ELSE Debug_str(ErrorCodeLiteral(c.code))

Debug_ErrorCode(c) ==
    IF c.code = "UnknownField"
    THEN UnknownFieldPrefix \o c.field \o <<"\"">>
    ELSE IF c.code = "MissingField"
         THEN MissingFieldPrefix \o c.field \o <<"\"">>
         ELSE Debug_str(ErrorCodeLiteral(c.code))

Digits == <<"0", "1", "2", "3", "4", "5", "6", "7", "8", "9">>

RECURSIVE Display_usize(_)
\* {} of a usize: its decimal digits, most significant first
Display_usize(n) ==
    IF n < 10 THEN <<Digits[n + 1]>>
    ELSE Display_usize(n \div 10) \o <<Digits[(n % 10) + 1]>>

AtLine == <<" ", "a", "t", " ", "l", "i", "n", "e", " ">>

Column == <<" ", "c", "o", "l", "u", "m", "n", " ">>

MissingFieldText ==
    <<"m", "i", "s", "s", "i", "n", "g", " ", "f", "i", "e", "l", "d", " ">>

Display_Error(e) ==
    IF e.variant = "SyntaxError"
    THEN Debug_ErrorCode(e.code) \o AtLine \o Display_usize(e.line)
         \o Column \o Display_usize(e.col)
    ELSE MissingFieldText \o e.field

(***************************************************************************)
(* de::Error for Error, and From<de::value::Error> for Error.              *)
(***************************************************************************)
syntax(msg) == SyntaxError(ErrorCode("ExpectedSomeValue"), 0, 0)

end_of_stream == SyntaxError(ErrorCode("EOFWhileParsingValue"), 0, 0)

unknown_field(field) == SyntaxError(UnknownField(str_to_owned(field)), 0, 0)

missing_field(field) == MissingFieldError(field)

ValueErrors ==
    {[variant |-> "SyntaxError"], [variant |-> "EndOfStreamError"]}
    \cup {[variant |-> "UnknownFieldError", field |-> f] : f \in FieldNames}
    \cup {[variant |-> "MissingFieldError", field |-> f] : f \in FieldNames}

from_value_Error(error) ==
    CASE error.variant = "SyntaxError" ->
           SyntaxError(ErrorCode("ExpectedSomeValue"), 0, 0)
      [] error.variant = "EndOfStreamError" -> end_of_stream
      [] error.variant = "UnknownFieldError" ->
           SyntaxError(UnknownField(error.field), 0, 0)
      [] error.variant = "MissingFieldError" -> missing_field(error.field)

\* an error is constructed; each behaviour follows one error value from its
\* construction to its formatting
Construct(e, by) ==
    /\ err = NoError
    /\ err' = e
    /\ origin' = by
    /\ shown' = None
    /\ prevCode' = None
    /\ UNCHANGED rawVars

ErrorSyntax(msg) == Construct(syntax(msg), "syntax")

ErrorEndOfStream == Construct(end_of_stream, "end_of_stream")

ErrorUnknownField(field) == Construct(unknown_field(field), "unknown_field")

ErrorMissingField(field) == Construct(missing_field(field), "missing_field")

ErrorFromValueError(error) == Construct(from_value_Error(error), "from_value_error")

\* the grammar parser reports a defect at a position of the input
ParserSyntaxError(code, line, col) == Construct(SyntaxError(code, line, col), "parser")

\* format!("{}", err)
DisplayError ==
    /\ err # NoError
    /\ shown = None
    /\ shown' = Some(Display_Error(err))
    /\ UNCHANGED <<err, origin, prevCode>>
    /\ UNCHANGED rawVars

\* format!("{:?}", code) of the error's code and of another code
DebugErrorCodes(other) ==
    /\ err # NoError
    /\ err.variant = "SyntaxError"
    /\ prevCode = None
    /\ prevCode' = Some([other |-> other,
                         mine |-> Debug_ErrorCode(err.code),
                         its |-> Debug_ErrorCode(other)])
    /\ UNCHANGED <<err, origin, shown>>
    /\ UNCHANGED rawVars

NextErr ==
    \/ \E msg \in FieldNames : ErrorSyntax(msg)
    \/ ErrorEndOfStream
    \/ \E f \in FieldNames : ErrorUnknownField(f)
    \/ \E f \in FieldNames : ErrorMissingField(f)
    \/ \E e \in ValueErrors : ErrorFromValueError(e)
    \/ \E c \in ErrorCodes, line \in Positions, col \in Positions :
          ParserSyntaxError(c, line, col)
    \/ DisplayError
    \/ \E c \in ErrorCodes : DebugErrorCodes(c)

SpecErr == Init /\ [][NextErr]_vars

(***************************************************************************)
(* Properties of the diagnostics layer, checked under SpecErr.             *)
(***************************************************************************)
C7_IsDecimal(s) ==
    /\ Len(s) >= 1
    /\ \A i \in 1..Len(s) : \E d \in 1..10 : s[i] = Digits[d]
    /\ Len(s) > 1 => s[1] # "0"

C7_DigitValue(ch) == (CHOOSE d \in 1..10 : Digits[d] = ch) - 1

RECURSIVE C7_DecimalValue(_)
C7_DecimalValue(s) ==
    IF s = <<>> THEN 0
    ELSE 10 * C7_DecimalValue(SubSeq(s, 1, Len(s) - 1)) + C7_DigitValue(s[Len(s)])

\* C7: syntax-error display shape.  Display of SyntaxError(c, L, C) is the Debug
\* text of c, then " at line ", the decimal digits of L, " column ", the decimal
\* digits of C, and nothing else; and the Debug texts of two ErrorCode values are
\* equal only when the two values are equal (payloads included).
C7_SyntaxErrorDisplay ==
    /\ (shown.some /\ err.variant = "SyntaxError") =>
         LET d == Debug_ErrorCode(err.code)
             o == shown.val
             rest == SubSeq(o, Len(d) + 1, Len(o))
         IN  /\ Len(o) >= Len(d) + 19
             /\ SubSeq(o, 1, Len(d)) = d
             /\ SubSeq(rest, 1, 9) = <<" ", "a", "t", " ", "l", "i", "n", "e", " ">>
             /\ \E n \in 1..(Len(rest) - 18) :
                  LET ls == SubSeq(rest, 10, 9 + n)
                      cs == SubSeq(rest, 18 + n, Len(rest))
                  IN  /\ SubSeq(rest, 10 + n, 17 + n)
                           = <<" ", "c", "o", "l", "u", "m", "n", " ">>
                      /\ C7_IsDecimal(ls) /\ C7_DecimalValue(ls) = err.line
                      /\ C7_IsDecimal(cs) /\ C7_DecimalValue(cs) = err.col
    /\ prevCode.some =>
         (prevCode.val.mine = prevCode.val.its <=> err.code = prevCode.val.other)

C7_Witness ==
    /\ shown.some
    /\ err.variant = "SyntaxError"
    /\ err.code = UnknownField(<<"a", "\"">>)
    /\ err.line = 10 + MaxPos
    /\ err.col = 100 * MaxPos
    /\ prevCode.some
    /\ prevCode.val.other = MissingField(<<"a", "\"">>)

\* C8: positions are 1-based.  Every SyntaxError made by de::Error::syntax,
\* end_of_stream, unknown_field or From<de::value::Error> carries line >= 1 and
\* column >= 1.
C8_PositionsOneBased ==
    ( /\ origin \in {"syntax", "end_of_stream", "unknown_field", "from_value_error"}
      /\ err.variant = "SyntaxError" )
    => err.line >= 1 /\ err.col >= 1

====
